---- MODULE Spec2Model ----
(***************************************************************************)
(* Model of the persisted file-state / notification engine                 *)
(* (api/persistence/models/state.py) and of the staged-queue drain         *)
(* (bin/sandman/dummy.py).                                                  *)
(*                                                                         *)
(* The database is three tables: status (id, file, state, notified),       *)
(* warnings (status, tminus) and notifications (status, stakeholder).      *)
(* Every method of a state object is an operator from a database to the    *)
(* set of outcomes it can have ([db, ret, err]); an unordered SELECT        *)
(* followed by fetchone() may return any matching row, so it has one        *)
(* outcome per matching row.                                                *)
(***************************************************************************)
EXTENDS Integers, Sequences, FiniteSets, TLC

VARIABLES
    status,         \* table status: sequence of rows, the row's id is its index
    warnings,       \* table warnings: sequence of rows [status, tminus]
    notifications,  \* table notifications: set of rows [status, stakeholder]
    last,           \* the last call on a state object: the method and how it ended
    pc,             \* dummy.main: position in the program
    vault_dirs,     \* dummy.main: argv[1:], each entry a directory
    idx,            \* dummy.main: index of the STEP 1 loop
    vaults,         \* dummy.main: the vaults STEP 1 created
    staged_queue,   \* the files in the staged-and-notified ready state
    queue,          \* dummy.main: the accumulator taken inside the with block
    handler,        \* dummy.main: what the downstream handler was asked / answered
    log,            \* dummy.main: levels of the messages logged so far
    fs_bases,       \* FilesystemWalker: the base paths it is constructed over
    fs_vaults,      \* FilesystemWalker: self._vaults
    fs_skipped,     \* FilesystemWalker: the base paths skipped with a warning
    fs_state,       \* FilesystemWalker: not yet constructed, built, or the error raised
    mpistat,        \* mpistatWalker: the lines of the snapshot file
    mp_resolved,    \* mpistatWalker: the vaults _common_vaults resolved, by root
    mp_vaults,      \* mpistatWalker: self._vaults, a dict in insertion order
    mp_timestamp,   \* mpistatWalker: self._timestamp
    mp_pos,         \* mpistatWalker.files: lines read from the handle so far
    mp_handle,      \* mpistatWalker.files: the decompression handle
    mp_gen,         \* mpistatWalker.files: the generator (created, suspended, how it ended)
    mp_yielded,     \* mpistatWalker.files: the File entities yielded so far
    clock,          \* time.now(), in hours
    on_disk,        \* what path.stat() of the File's path returns
    f_stat,         \* File._stat
    f_timestamp,    \* File._timestamp
    f_last,         \* the last read of File.stat: cached or re-read, and the age then
    cv_path,        \* convert_vault_rel_to_work_dir_rel: the vault-relative path
    cv_work_dir,    \* convert_vault_rel_to_work_dir_rel: the working directory
    cv_result,      \* convert_vault_rel_to_work_dir_rel: the path returned
    cv_state,       \* convert_vault_rel_to_work_dir_rel: called or returned
    pf_root,        \* _base64_prefix: the vault root it is called on
    pf_prefix,      \* _base64_prefix: the prefix returned
    pf_state,       \* _base64_prefix: called or returned
    tw_root,        \* the entries of the directory that is the vault root
    tw_sub,         \* the entries of the one sub-directory
    tw_pos,         \* FilesystemWalker.files: the number of elements yielded
    tw_last,        \* FilesystemWalker.files: the File yielded last
    tw_gen          \* FilesystemWalker.files: the generator's state

vars == <<status, warnings, notifications, last,
          pc, vault_dirs, idx, vaults, staged_queue, queue, handler, log,
          fs_bases, fs_vaults, fs_skipped, fs_state,
          mpistat, mp_resolved, mp_vaults, mp_timestamp, mp_pos, mp_handle, mp_gen, mp_yielded,
          clock, on_disk, f_stat, f_timestamp, f_last,
          cv_path, cv_work_dir, cv_result, cv_state,
          pf_root, pf_prefix, pf_state,
          tw_root, tw_sub, tw_pos, tw_last, tw_gen>>

storeVars == <<status, warnings, notifications, last>>
drainVars == <<pc, vault_dirs, idx, vaults, staged_queue, queue, handler, log>>
walkVars == <<fs_bases, fs_vaults, fs_skipped, fs_state>>
snapVars == <<mpistat, mp_resolved, mp_vaults, mp_timestamp, mp_pos, mp_handle, mp_gen, mp_yielded>>
statVars == <<clock, on_disk, f_stat, f_timestamp, f_last>>
convVars == <<cv_path, cv_work_dir, cv_result, cv_state>>
prefixVars == <<pf_root, pf_prefix, pf_state>>
treeVars == <<tw_root, tw_sub, tw_pos, tw_last, tw_gen>>

----------------------------------------------------------------------------
(* Bounds of the model *)

\* the status table holds at most MaxRows rows
MaxRows == 2

----------------------------------------------------------------------------
(* Values *)

\* core.persistence.Anything, the wildcard sentinel (a class object)
Anything == "Anything"

\* fetchone() found no row / a method that returns nothing
None == 0

\* File objects, named by their db_id (every File handed to a state object has
\* been given its db_id, which the methods assert)
Files == {1, 2}

\* the state-kinds: db_type of State.Staged, State.Warned, State.Deleted
Kinds == {"staged", "warned", "deleted"}

\* values of the notified field of a state: a bool or the wildcard
Notified == {"True", "False", Anything}

\* lead-times of a warned state: a concrete time delta or the wildcard
TimeDeltas == {"3d", "1d"}
NoTminus == "n/a"

\* stakeholders known to the identity manager, by uid
Users == {"u1", "u2"}

\* the stakeholders of a file (its owner and its group's owners)
FileStakeholders(f) == IF f = 1 THEN {"u1", "u2"} ELSE {"u2"}

\* state objects: State.Staged(notified), State.Deleted(notified),
\* State.Warned(notified, tminus)
States ==
    [kind : {"staged", "deleted"}, notified : Notified, tminus : {NoTminus}]
    \cup [kind : {"warned"}, notified : Notified, tminus : TimeDeltas \cup {Anything}]

\* Python truth value of the notified field: False is the only false value;
\* True and the class Anything are true
Truthy(n) == n /= "False"

----------------------------------------------------------------------------
(* The database *)

DB == [status |-> status, warnings |-> warnings, notifications |-> notifications]

\* outcome of a call: the database it leaves, what it returns, how it ended
Ok(db, ret) == [db |-> db, ret |-> ret, err |-> "ok"]
Raise(db, e) == [db |-> db, ret |-> None, err |-> e]

\* the view stakeholder_notified (id, file, stakeholder, notified): one row per
\* status row and stakeholder of its file; notified iff a notifications row
\* exists for (status, stakeholder)
stakeholder_notified(db) ==
    { [id |-> p[1], file |-> db.status[p[1]].file, stakeholder |-> p[2],
       notified |-> ([status |-> p[1], stakeholder |-> p[2]] \in db.notifications)] :
        p \in { q \in (1..Len(db.status)) \X Users :
                    q[2] \in FileStakeholders(db.status[q[1]].file) } }

\* the value the notified column of a new status row takes: the INSERT of
\* persist names only (file, state), so the row is created not notified
status_notified_default == FALSE

\* a persist that updates the row of (file, state) when there is one
insert_status_upsert(db, f, kind) ==
    IF \E i \in 1..Len(db.status) : db.status[i].file = f /\ db.status[i].state = kind
    THEN db
    ELSE [db EXCEPT !.status = Append(@, [file |-> f, state |-> kind, notified |-> status_notified_default])]

\* insert into status (file, state) values (%s, %s) returning id: the id is the
\* next value of the serial column, the notified column takes its default
insert_status(db, f, kind) ==
    [db EXCEPT !.status = Append(@, [file |-> f, state |-> kind, notified |-> status_notified_default])]

\* insert into warnings (status, tminus) values (%s, %s)
insert_warning(db, id, tminus) ==
    [db EXCEPT !.warnings = Append(@, [status |-> id, tminus |-> tminus])]

\* insert into notifications (status, stakeholder) <rows> on conflict do nothing:
\* a row whose (status, stakeholder) is already there is skipped.  (The statement
\* text puts the SELECT after the keyword "values"; it is read as INSERT ... SELECT.)
insert_notifications(db, rows) ==
    [db EXCEPT !.notifications =
        @ \cup { r \in rows : \A n \in @ : ~(n.status = r.status /\ n.stakeholder = r.stakeholder) }]

----------------------------------------------------------------------------
(* _PersistedState and State.Warned *)

\* _PersistedState.exists: select id from status where state = %s and file = %s,
\* then fetchone(). The SELECT has no ORDER BY: any matching row may come first.
base_exists(db, st, f) ==
    LET rows == { i \in 1..Len(db.status) :
                    db.status[i].state = st.kind /\ db.status[i].file = f }
    IN  IF rows = {} THEN {Ok(db, None)} ELSE { Ok(db, i) : i \in rows }

\* State.Warned.exists: the two asserts, then the parameter tuple
\* (file.db_id, state.tminus) is built before execute is called; the module
\* binds no name "state", so building it raises NameError
warned_exists(db, st, f) ==
    IF st.tminus = Anything THEN {Raise(db, "AssertionError")}
    ELSE {Raise(db, "NameError")}

\* self.exists: dispatch on the class of the state
exists(db, st, f) ==
    IF st.kind = "warned" THEN warned_exists(db, st, f) ELSE base_exists(db, st, f)

\* the rows mark_notified selects for insertion: select id, stakeholder from
\* stakeholder_notified where (not notified) and id = %s and file = %s
\* [and stakeholder = %s]
notify_rows(db, state_id, f, stakeholder) ==
    { [status |-> r.id, stakeholder |-> r.stakeholder] :
        r \in { v \in stakeholder_notified(db) :
                  /\ ~v.notified
                  /\ v.id = state_id
                  /\ v.file = f
                  /\ (stakeholder /= Anything => v.stakeholder = stakeholder) } }

RECURSIVE base_persist(_, _, _)
RECURSIVE persist(_, _, _)
RECURSIVE mark_notified(_, _, _, _)

\* _PersistedState.mark_notified
mark_notified(db, st, f, stakeholder) ==
    UNION { IF e.err /= "ok" THEN {Raise(e.db, e.err)}
            ELSE IF e.ret = None
                 THEN { IF p.err /= "ok" THEN Raise(p.db, p.err)
                        ELSE Ok(insert_notifications(p.db, notify_rows(p.db, p.ret, f, stakeholder)), None) :
                            p \in persist(db, st, f) }
                 ELSE { Ok(insert_notifications(e.db, notify_rows(e.db, e.ret, f, stakeholder)), None) } :
              e \in exists(db, st, f) }

\* _PersistedState.persist
base_persist(db, st, f) ==
    LET db1 == insert_status(db, f, st.kind)
        state_id == Len(db1.status)
    IN  IF Truthy(st.notified)
        THEN { IF m.err /= "ok" THEN Raise(m.db, m.err) ELSE Ok(m.db, state_id) :
                   m \in mark_notified(db1, st, f, Anything) }
        ELSE {Ok(db1, state_id)}

\* a State.Warned.persist that checks the lead-time only after the base persist
warned_persist_late_assert(db, st, f) ==
    { IF p.err /= "ok" THEN Raise(p.db, p.err)
      ELSE IF st.tminus = Anything THEN Raise(p.db, "AssertionError")
      ELSE Ok(insert_warning(p.db, p.ret, st.tminus), p.ret) :
          p \in base_persist(db, st, f) }

\* a State.Warned.persist that leaves out the INSERT into warnings
warned_persist_no_warning(db, st, f) ==
    IF st.tminus = Anything THEN {Raise(db, "AssertionError")}
    ELSE base_persist(db, st, f)

\* State.Warned.persist
warned_persist(db, st, f) ==
    IF st.tminus = Anything THEN {Raise(db, "AssertionError")}
    ELSE { IF p.err /= "ok" THEN Raise(p.db, p.err)
           ELSE Ok(insert_warning(p.db, p.ret, st.tminus), p.ret) :
               p \in base_persist(db, st, f) }

\* self.persist: dispatch on the class of the state
persist(db, st, f) ==
    IF st.kind = "warned" THEN warned_persist(db, st, f) ELSE base_persist(db, st, f)

\* the files selected by running the fragment of _PersistedState.file_cte /
\* State.Warned.file_cte with its parameters; "error" when the database rejects it
base_file_cte(db, st) ==
    { db.status[i].file :
        i \in { j \in 1..Len(db.status) :
                  /\ db.status[j].state = st.kind
                  /\ (st.notified /= Anything =>
                        db.status[j].notified = (st.notified = "True")) } }

\* State.Warned.file_cte, run against the database: status joined to its
\* warnings row, narrowed by notified and by tminus unless they are wildcards.
\* (The join condition is written "warnings.status = state.id"; it is read as
\* status.id.)
warned_file_cte(db, st) ==
    { db.status[db.warnings[w].status].file :
        w \in { x \in 1..Len(db.warnings) :
                  LET row == db.status[db.warnings[x].status]
                  IN  /\ row.state = st.kind
                      /\ (st.notified /= Anything => row.notified = (st.notified = "True"))
                      /\ (st.tminus /= Anything => db.warnings[x].tminus = st.tminus) } }

\* self.file_cte: dispatch on the class of the state
file_cte(db, st) ==
    IF st.kind = "warned" THEN warned_file_cte(db, st) ELSE base_file_cte(db, st)

\* the columns the %s placeholders of the fragment of file_cte compare, in the
\* order they stand in the text: state, then notified and (warned) tminus
\* unless the field is the wildcard
file_cte_placeholders(st) ==
    <<"state">>
    \o (IF st.notified /= Anything THEN <<"notified">> ELSE << >>)
    \o (IF st.kind = "warned" /\ st.tminus /= Anything THEN <<"tminus">> ELSE << >>)

\* the parameter tuple file_cte returns beside the text
file_cte_params(st) ==
    <<st.kind>>
    \o (IF st.notified /= Anything THEN <<st.notified>> ELSE << >>)
    \o (IF st.kind = "warned" /\ st.tminus /= Anything THEN <<st.tminus>> ELSE << >>)

----------------------------------------------------------------------------
(* The state store: calls on state objects inside one transaction *)

\* the last call: the method and how it ended
NoCall == [op |-> "none", err |-> "ok"]

Call(op, o) == [op |-> op, err |-> o.err]

\* the tables become what the call left (what it wrote before it returned or raised)
Commit(o) ==
    /\ Len(o.db.status) <= MaxRows
    /\ status' = o.db.status
    /\ warnings' = o.db.warnings
    /\ notifications' = o.db.notifications

StoreInit ==
    /\ status = << >>
    /\ warnings = << >>
    /\ notifications = {}
    /\ last = NoCall

CallExists ==
    \E st \in States, f \in Files :
        \E o \in exists(DB, st, f) :
            /\ Commit(o)
            /\ last' = Call("exists", o)

CallPersist ==
    \E st \in States, f \in Files :
        \E o \in persist(DB, st, f) :
            /\ Commit(o)
            /\ last' = Call("persist", o)

CallMarkNotified ==
    \E st \in States, f \in Files, stakeholder \in Users \cup {Anything} :
        \E o \in mark_notified(DB, st, f, stakeholder) :
            /\ Commit(o)
            /\ last' = Call("mark_notified", o)

CallFileCte ==
    \E st \in States :
        /\ UNCHANGED <<status, warnings, notifications>>
        /\ last' = Call("file_cte", Ok(DB, None))

----------------------------------------------------------------------------
(* bin/sandman/dummy.py: main *)

\* at most MaxDirs vault directories on the command line
MaxDirs == 2

\* a directory given on the command line: it does not exist, it resolves to a
\* vault, or non-managed files sit where its vault should be (VaultConflict)
Dirs == {"missing", "vault", "conflict"}

ArgLists == UNION { [1..n -> Dirs] : n \in 0..MaxDirs }

\* leaving the block of "with persistence.files(criteria) as staged_queue": the
\* queue is cleared unless an error was raised inside the block
files_exit(q, raised) == IF raised THEN q ELSE {}

\* the drain has not been started (the state store is used on its own)
DrainIdle ==
    /\ pc = "idle"
    /\ vault_dirs = << >>
    /\ idx = 0
    /\ vaults = {}
    /\ staged_queue = {}
    /\ queue = {}
    /\ handler = "never asked"
    /\ log = << >>

\* main is entered with any command line and any staged-and-notified files
\* left in the database by earlier runs
DrainInit ==
    /\ pc = "start"
    /\ vault_dirs \in ArgLists
    /\ idx = 0
    /\ vaults = {}
    /\ staged_queue \in SUBSET Files
    /\ queue = {}
    /\ handler = "never asked"
    /\ log = << >>

\* lines 54-59: the banner, then exit(1) when no vault directory was given
MainStart ==
    /\ pc = "start"
    /\ IF Len(vault_dirs) = 0
       THEN /\ log' = log \o <<"info", "critical">>
            /\ pc' = "exit"
            /\ idx' = idx
       ELSE /\ log' = Append(log, "info")
            /\ pc' = "step1"
            /\ idx' = 1
    /\ UNCHANGED <<vault_dirs, vaults, staged_queue, queue, handler>>

\* lines 67-74: one pass of the STEP 1 loop (_create_vault inlined, lines 43-50)
Step1 ==
    /\ pc = "step1"
    /\ idx <= Len(vault_dirs)
    /\ LET vault_dir == vault_dirs[idx]
       IN  IF vault_dir = "missing"
           THEN log' = Append(log, "error") /\ vaults' = vaults
           ELSE IF vault_dir = "conflict"
           THEN log' = Append(log, "error") /\ vaults' = vaults
           ELSE log' = log /\ vaults' = vaults \cup {idx}
    /\ idx' = idx + 1
    /\ UNCHANGED <<pc, vault_dirs, staged_queue, queue, handler>>

\* lines 79-87: STEP 2 enters the with block and takes the accumulator
EnterQueue ==
    /\ pc = "step1"
    /\ idx > Len(vault_dirs)
    /\ queue' = staged_queue
    /\ log' = Append(log, "info")
    /\ pc' = "in_with"
    /\ UNCHANGED <<vault_dirs, idx, vaults, staged_queue, handler>>

\* lines 87-95: the rest of the block is a TODO: the handler is not asked and
\* nothing is raised, so the block is left normally and neither except clause
\* (HandlerBusy, DownstreamFull) runs
ExitQueue ==
    /\ pc = "in_with"
    /\ staged_queue' = files_exit(staged_queue, FALSE)
    /\ pc' = "done"
    /\ UNCHANGED <<vault_dirs, idx, vaults, queue, handler, log>>

----------------------------------------------------------------------------
(* bin/sandman/walk.py: BaseWalker._common_vaults, FilesystemWalker.__init__ *)

\* at most MaxBases base paths are given to a walker
MaxBases == 3

BaseLists == UNION { [1..n -> Dirs] : n \in 0..MaxBases }

\* Vault(path, idm=idm) on a base path, by the kind of the path: the ways the
\* constructor can end.  A path with non-managed files where its vault should
\* be ends in VaultConflict.  A path that does not exist is no conflict (main
\* of dummy.py tests vault_dir.exists() before it calls the same constructor
\* and handles the two cases apart): the constructor either fails on the
\* missing path (FileNotFoundError) or resolves to the vault of the directory
\* above it.
Vault(dir) ==
    IF dir = "vault" THEN {"ok"}
    ELSE IF dir = "conflict" THEN {"VaultConflict"}
    ELSE {"FileNotFoundError", "ok"}

\* BaseWalker._common_vaults, from the i-th path on: the vaults collected (by
\* the index of the path they were built from), the paths skipped with a
\* warning, and the error that ended the loop, if any
RECURSIVE _common_vaults(_, _, _)
_common_vaults(paths, i, acc) ==
    IF i > Len(paths) THEN {acc}
    ELSE UNION { IF v = "ok"
                 THEN _common_vaults(paths, i + 1, [acc EXCEPT !.vaults = @ \cup {i}])
                 ELSE IF v = "VaultConflict"
                 THEN _common_vaults(paths, i + 1, [acc EXCEPT !.skipped = @ \cup {i}])
                 ELSE {[acc EXCEPT !.err = v]} :
                     v \in Vault(paths[i]) }

\* FilesystemWalker(*bases): the object's _vaults and how construction ended
FilesystemWalker(paths) ==
    { IF c.err /= "ok" THEN c
      ELSE IF c.vaults = {} THEN [c EXCEPT !.err = "AssertionError"]
      ELSE c :
          c \in _common_vaults(paths, 1, [vaults |-> {}, skipped |-> {}, err |-> "ok"]) }

\* no walker is being constructed
WalkIdle ==
    /\ fs_bases = << >>
    /\ fs_vaults = {}
    /\ fs_skipped = {}
    /\ fs_state = "idle"

\* a walker is about to be constructed over any list of base paths
WalkInit ==
    /\ fs_bases \in BaseLists
    /\ fs_vaults = {}
    /\ fs_skipped = {}
    /\ fs_state = "new"

\* walk.py lines 124-133
NewFilesystemWalker ==
    /\ fs_state = "new"
    /\ \E w \in FilesystemWalker(fs_bases) :
           /\ fs_vaults' = w.vaults
           /\ fs_skipped' = w.skipped
           /\ fs_state' = IF w.err = "ok" THEN "built" ELSE w.err
    /\ UNCHANGED fs_bases

----------------------------------------------------------------------------
(* bin/sandman/walk.py: mpistatWalker, the walker over a snapshot file *)

\* a snapshot holds at most MaxLines lines
MaxLines == 2

\* mpistat field indices, and the number of stat fields of a record
_SIZE == 0
_OWNER == 1
_GROUP == 2
_ATIME == 3
_MTIME == 4
_CTIME == 5
_MODE == 6
_INODE == 7
_NLINKS == 8
_DEVICE == 9
NStats == 10

\* stat.S_IFREG: the mode of a regular file with no permission bit set
S_IFREG == 32768

\* Paths are strings, modelled as sequences of characters.  Ord gives the byte
\* of a character, Chr the character of a byte (str.encode / bytes.decode).
Chars == {"/", "a", "b", "f", "v", "x"}
Ord == [c \in Chars |->
           CASE c = "/" -> 47 [] c = "a" -> 97 [] c = "b" -> 98
             [] c = "f" -> 102 [] c = "v" -> 118 [] c = "x" -> 120]
Chr(b) == CHOOSE c \in Chars : Ord[c] = b

\* the base64 alphabet (RFC 4648) and the padding character
B64 == << "A", "B", "C", "D", "E", "F", "G", "H", "I", "J", "K", "L", "M",
          "N", "O", "P", "Q", "R", "S", "T", "U", "V", "W", "X", "Y", "Z",
          "a", "b", "c", "d", "e", "f", "g", "h", "i", "j", "k", "l", "m",
          "n", "o", "p", "q", "r", "s", "t", "u", "v", "w", "x", "y", "z",
          "0", "1", "2", "3", "4", "5", "6", "7", "8", "9", "+", "/" >>
Pad == "="
Sextets == [c \in { B64[i] : i \in 1..Len(B64) } |->
               (CHOOSE i \in 1..Len(B64) : B64[i] = c) - 1]
Sextet(c) == Sextets[c]

\* core.utils.base64.encode: the base64 text of a string, three bytes to four
\* characters, the last group padded
RECURSIVE b64encode(_)
b64encode(str) ==
    IF Len(str) = 0 THEN << >>
    ELSE LET b1 == Ord[str[1]]
             b2 == IF Len(str) >= 2 THEN Ord[str[2]] ELSE 0
             b3 == IF Len(str) >= 3 THEN Ord[str[3]] ELSE 0
             c1 == B64[(b1 \div 4) + 1]
             c2 == B64[((b1 % 4) * 16 + (b2 \div 16)) + 1]
             c3 == B64[((b2 % 16) * 4 + (b3 \div 64)) + 1]
             c4 == B64[(b3 % 64) + 1]
         IN  IF Len(str) = 1 THEN <<c1, c2, Pad, Pad>>
             ELSE IF Len(str) = 2 THEN <<c1, c2, c3, Pad>>
             ELSE <<c1, c2, c3, c4>> \o b64encode(SubSeq(str, 4, Len(str)))

\* core.utils.base64.decode(...).decode(): the string of a base64 text
RECURSIVE b64decode(_)
b64decode(text) ==
    IF Len(text) = 0 THEN << >>
    ELSE LET s1 == Sextet(text[1])
             s2 == Sextet(text[2])
             s3 == IF text[3] = Pad THEN 0 ELSE Sextet(text[3])
             s4 == IF text[4] = Pad THEN 0 ELSE Sextet(text[4])
             b1 == Chr(s1 * 4 + (s2 \div 16))
             b2 == Chr((s2 % 16) * 16 + (s3 \div 4))
             b3 == Chr((s3 % 4) * 64 + s4)
         IN  IF text[3] = Pad THEN <<b1>>
             ELSE IF text[4] = Pad THEN <<b1, b2>>
             ELSE <<b1, b2, b3>> \o b64decode(SubSeq(text, 5, Len(text)))

\* str.startswith
startswith(str, prefix) ==
    Len(prefix) <= Len(str) /\ SubSeq(str, 1, Len(prefix)) = prefix

\* the parts of an absolute path (pathlib: the names between the slashes)
RECURSIVE parts(_)
parts(str) ==
    IF Len(str) = 0 THEN << >>
    ELSE LET rest == parts(SubSeq(str, 2, Len(str)))
         IN  IF str[1] = "/" THEN << << >> >> \o rest
             ELSE IF Len(rest) = 0 THEN << <<str[1]>> >>
             ELSE << <<str[1]>> \o rest[1] >> \o SubSeq(rest, 2, Len(rest))

\* path.relative_to(root) does not raise ValueError: the parts of root are the
\* first parts of path
relative_to(path, root) ==
    LET pp == parts(path)
        rp == parts(root)
    IN  Len(rp) <= Len(pp) /\ SubSeq(pp, 1, Len(rp)) = rp

\* the roots of the vaults a walker may be constructed over, and the paths a
\* snapshot may hold
Roots == { <<"/", "v", "/", "a">>, <<"/", "v", "/", "a", "b">>, <<"/", "v", "/", "b">> }
Paths == { <<"/", "v", "/", "a">>, <<"/", "v", "/", "a", "/", "f">>,
           <<"/", "v", "/", "a", "b", "/", "f">>, <<"/", "v", "/", "b", "/", "f">>,
           <<"/", "x", "/", "f">> }

\* a _base64_prefix that takes the whole encoding of the path, padding included
_base64_prefix_whole(path) == b64encode(path)

\* mpistatWalker._base64_prefix: the characters of the encoded path before the
\* first one that differs from the encoding of the path with a slash appended
\* (all of it when none differs)
_base64_prefix(path) ==
    LET bare == b64encode(path)
        slashed == b64encode(path \o <<"/">>)
        differ == { i \in 1..Len(bare) : bare[i] /= slashed[i] }
        first == CHOOSE i \in differ : \A j \in differ : i <= j
    IN  IF differ = {} THEN bare ELSE SubSeq(bare, 1, first - 1)

\* the dict comprehension of mpistatWalker.__init__ over the vaults in the
\* order the set hands them out: a later vault with a prefix already in the
\* dict takes the place of the earlier one
RECURSIVE dict_of(_, _)
dict_of(order, n) ==
    IF n = 0 THEN << >>
    ELSE LET d == dict_of(order, n - 1)
             entry == [prefix |-> _base64_prefix(order[n]), root |-> order[n]]
         IN  IF \E k \in 1..Len(d) : d[k].prefix = entry.prefix
             THEN [k \in 1..Len(d) |-> IF d[k].prefix = entry.prefix THEN entry ELSE d[k]]
             ELSE Append(d, entry)

\* the _vaults a walker constructed over the set S of resolved vaults can
\* hold: the set hands its vaults out in any order
TablesOf(S) ==
    { dict_of(order, Cardinality(S)) :
        order \in { o \in [1..Cardinality(S) -> S] :
                      \A i, j \in 1..Cardinality(S) : o[i] = o[j] => i = j } }

\* the _vaults a constructed mpistatWalker can hold: any non-empty set of
\* vaults, handed out by the set in any order
Tables == UNION { TablesOf(S) : S \in (SUBSET Roots) \ {{}} }

\* no File / no match (None)
NoFile == [path |-> << >>, vault |-> << >>]

\* a _is_match that trusts the prefix: no relative_to test of the decoded path
_is_match_prefix_only(table, encoded_path) ==
    LET hits == { k \in 1..Len(table) : startswith(encoded_path, table[k].prefix) }
    IN  IF hits = {} THEN NoFile
        ELSE LET k == CHOOSE h \in hits : \A j \in hits : h <= j
             IN  [vault |-> table[k].root, path |-> b64decode(encoded_path)]

\* mpistatWalker._is_match: the first entry of _vaults, in dict order, whose
\* prefix starts the encoded path and whose root the decoded path is relative to
_is_match(table, encoded_path) ==
    LET decoded == b64decode(encoded_path)
        hits == { k \in 1..Len(table) :
                    /\ startswith(encoded_path, table[k].prefix)
                    /\ relative_to(decoded, table[k].root) }
    IN  IF hits = {} THEN NoFile
        ELSE LET k == CHOOSE h \in hits : \A j \in hits : h <= j
             IN  [vault |-> table[k].root, path |-> decoded]

\* the lines of a snapshot: a record is the encoded path and its stat fields,
\* of which the model keeps the mode and their number; a record cut short has
\* fewer than NStats stat fields.  A blank line splits into the single field "".
\* the decimal digits; decimal(n) is the decimal text of a number (str), int(text) the
\* number of a decimal text
Digits == <<"0", "1", "2", "3", "4", "5", "6", "7", "8", "9">>
DigitValue == [c \in { Digits[i] : i \in 1..Len(Digits) } |->
                  (CHOOSE i \in 1..Len(Digits) : Digits[i] = c) - 1]

RECURSIVE decimal(_)
decimal(n) == IF n < 10 THEN <<Digits[n + 1]>>
              ELSE Append(decimal(n \div 10), Digits[(n % 10) + 1])

RECURSIVE int(_)
int(text) ==
    IF Len(text) = 1 THEN DigitValue[text[1]]
    ELSE int(SubSeq(text, 1, Len(text) - 1)) * 10 + DigitValue[text[Len(text)]]

\* The stat fields of a record but the mode are decimal texts, kept in stats by
\* field index; the numbers differ from field to field and from path to path.
RECURSIVE ByteSum(_)
ByteSum(str) == IF Len(str) = 0 THEN 0 ELSE Ord[str[1]] + ByteSum(Tail(str))

RecordField(path, k) == ByteSum(path) * NStats + k

Record(path, mode, n) ==
    [encoded |-> b64encode(path), mode |-> mode, nstats |-> n,
     stats |-> [k \in 0..(n - 1) |-> decimal(RecordField(path, k))]]

\* the paths of Paths that are directories; the others are regular files
Directories == { <<"/", "v", "/", "a">> }

Records ==
    { Record(p, "f", NStats) : p \in Paths \ Directories }
    \cup { Record(p, "d", NStats) : p \in Directories }
    \cup { Record(<<"/", "v", "/", "a", "/", "f">>, "f", NStats - 2) }
Blank == [encoded |-> << >>, mode |-> "", nstats |-> 0, stats |-> << >>]
Snapshots == UNION { [1..n -> Records \cup {Blank}] : n \in 0..MaxLines }

\* mpistat.readline().strip().split("\t") at position pos: the next line, or
\* the empty string once the stream is exhausted
readline(lines, pos) == IF pos < Len(lines) THEN lines[pos + 1] ELSE Blank

\* the number of fields the split returns (never zero: "".split("\t") is [""])
NFields(line) == 1 + line.nstats

\* stats[_MODE] == "f"
is_regular(line) == line.mode = "f"

\* leaving the with block of files(): the handle is closed
with_exit_leak(handle) == handle

with_exit(handle) == "closed"

\* what vault.branch(path) can do: return None (the file is not tracked) or a
\* Branch, or raise PhysicalVaultFile or VaultCorruption
BranchOutcomes ==
    { [raised |-> FALSE, value |-> "None"],
      [raised |-> FALSE, value |-> "Branch"],
      [raised |-> TRUE, value |-> "PhysicalVaultFile"],
      [raised |-> TRUE, value |-> "VaultCorruption"] }

\* a _vault_status without its except clause: the exception goes on
_vault_status_uncaught(outcome) == outcome

\* BaseWalker._vault_status, given what vault.branch(path) does: the branch or
\* None, or the caught exception, returned as a value
_vault_status(outcome) == [raised |-> FALSE, value |-> outcome.value]

\* a _make_stat that takes the fields in the order of the record
_make_stat_in_record_order(stats) ==
    [st_mode |-> S_IFREG, st_ino |-> int(stats[1]), st_dev |-> int(stats[2]),
     st_nlink |-> int(stats[3]), st_uid |-> int(stats[4]), st_gid |-> int(stats[5]),
     st_size |-> int(stats[6]), st_atime |-> int(stats[7]), st_mtime |-> int(stats[8]),
     st_ctime |-> int(stats[9])]

\* mpistatWalker._make_stat (the assert on the number of fields is in files)
_make_stat(stats) ==
    [st_mode |-> S_IFREG, st_ino |-> int(stats[_INODE]), st_dev |-> int(stats[_DEVICE]),
     st_nlink |-> int(stats[_NLINKS]), st_uid |-> int(stats[_OWNER]),
     st_gid |-> int(stats[_GROUP]), st_size |-> int(stats[_SIZE]),
     st_atime |-> int(stats[_ATIME]), st_mtime |-> int(stats[_MTIME]),
     st_ctime |-> int(stats[_CTIME])]

\* the modification time of the snapshot file, and the time of the walk
SnapshotTimes == {"st_mtime of the snapshot"}
WalkTime == "now"

\* File(path, branch, _stat, _timestamp), with the vault the path was matched to
File(match, branch, stat, timestamp) ==
    [path |-> match.path, vault |-> match.vault, branch |-> branch,
     stat |-> stat, timestamp |-> timestamp]

\* the body of mpistatWalker.files from the current position to its next
\* yield, return or error: how it ended, the position reached, the File built.
\* outcome is what vault.branch does for the file of the yield, timestamp the
\* walker's _timestamp.
RECURSIVE files(_, _, _, _, _)
files(table, lines, pos, outcome, timestamp) ==
    LET fields == readline(lines, pos)
        pos1 == IF pos < Len(lines) THEN pos + 1 ELSE pos
        match == _is_match(table, fields.encoded)
    IN  IF NFields(fields) = 0
        THEN [end |-> "returned", pos |-> pos1, file |-> NoFile]
        ELSE IF fields.nstats <= _MODE
        THEN [end |-> "IndexError", pos |-> pos1, file |-> NoFile]
        ELSE IF is_regular(fields) /\ match /= NoFile
        THEN IF _vault_status(outcome).raised
             THEN [end |-> outcome.value, pos |-> pos1, file |-> NoFile]
             ELSE IF fields.nstats /= NStats
             THEN [end |-> "AssertionError", pos |-> pos1, file |-> NoFile]
             ELSE [end |-> "yield", pos |-> pos1,
                   file |-> File(match,
                                 _vault_status(outcome).value,
                                 _make_stat(fields.stats), timestamp)]
        ELSE files(table, lines, pos1, outcome, timestamp)

\* no snapshot walker exists
SnapIdle ==
    /\ mpistat = << >>
    /\ mp_resolved = {}
    /\ mp_vaults = << >>
    /\ mp_timestamp = "none"
    /\ mp_pos = 0
    /\ mp_handle = "none"
    /\ mp_gen = "idle"
    /\ mp_yielded = << >>

\* a walker has been constructed over any snapshot and any vaults, and files()
\* has been called: the generator exists and has not run yet
SnapInit ==
    /\ mpistat \in Snapshots
    /\ mp_resolved \in (SUBSET Roots) \ {{}}
    /\ mp_vaults \in TablesOf(mp_resolved)
    /\ mp_timestamp \in SnapshotTimes
    /\ mp_pos = 0
    /\ mp_handle = "unopened"
    /\ mp_gen = "created"
    /\ mp_yielded = << >>

\* the consumer asks for the next element: the generator runs (from its start,
\* where it opens the handle, or from its last yield) to its next yield, or
\* ends, and an end of any kind leaves the with block
NextFile ==
    /\ mp_gen \in {"created", "suspended"}
    /\ \E outcome \in BranchOutcomes :
       LET r == files(mp_vaults, mpistat, mp_pos, outcome, mp_timestamp)
       IN  /\ mp_pos' = r.pos
           /\ IF r.end = "yield"
              THEN /\ mp_yielded' = Append(mp_yielded, r.file)
                   /\ mp_gen' = "suspended"
                   /\ mp_handle' = "open"
              ELSE /\ mp_yielded' = mp_yielded
                   /\ mp_gen' = r.end
                   /\ mp_handle' = with_exit("open")
    /\ UNCHANGED <<mpistat, mp_resolved, mp_vaults, mp_timestamp>>

\* the consumer abandons the iteration: the generator is closed.  One that
\* never ran just ends; one suspended at its yield gets GeneratorExit there and
\* leaves the with block.
Abandon ==
    /\ mp_gen \in {"created", "suspended"}
    /\ mp_gen' = "closed"
    /\ mp_handle' = IF mp_gen = "suspended" THEN with_exit(mp_handle) ELSE mp_handle
    /\ UNCHANGED <<mpistat, mp_resolved, mp_vaults, mp_timestamp, mp_pos, mp_yielded>>

----------------------------------------------------------------------------
(* bin/sandman/walk.py: File.stat, the cached metadata of a walked file *)

\* the clock runs, in hours, from 0 to MaxClock
MaxClock == 40

\* the automatic re-stat period, in hours (the default of RESTAT_AFTER)
_RESTAT_AFTER == 36

\* the metadata of the file on disk, by version
StatResults == {0, 1}

\* a File.stat that re-stats from the staleness bound on, not only beyond it
File_stat_at_bound(cached, timestamp, now, disk) ==
    IF now - timestamp >= _RESTAT_AFTER
    THEN [stat |-> disk, timestamp |-> now, reread |-> TRUE]
    ELSE [stat |-> cached, timestamp |-> timestamp, reread |-> FALSE]

\* File.stat on a File whose _stat is cached and whose _timestamp is timestamp,
\* read at time now while path.stat() gives disk: the File's _stat (also the
\* value returned) and _timestamp afterwards, and whether path.stat() was called
File_stat(cached, timestamp, now, disk) ==
    IF now - timestamp > _RESTAT_AFTER
    THEN [stat |-> disk, timestamp |-> now, reread |-> TRUE]
    ELSE [stat |-> cached, timestamp |-> timestamp, reread |-> FALSE]

\* no File is being read
StatIdle ==
    /\ clock = 0
    /\ on_disk = 0
    /\ f_stat = 0
    /\ f_timestamp = 0
    /\ f_last = [result |-> "idle", age |-> 0]

\* a walker has just built a File: its timestamp is the time of acquisition
\* and its metadata what the walker read or was told
StatInit ==
    /\ clock = 0
    /\ on_disk \in StatResults
    /\ f_stat \in StatResults
    /\ f_timestamp = 0
    /\ f_last = [result |-> "none", age |-> 0]

\* an hour passes
Tick ==
    /\ clock < MaxClock
    /\ clock' = clock + 1
    /\ UNCHANGED <<on_disk, f_stat, f_timestamp, f_last>>

\* the file's metadata changes on disk
Touch ==
    /\ \E v \in StatResults \ {on_disk} : on_disk' = v
    /\ UNCHANGED <<clock, f_stat, f_timestamp, f_last>>

\* walk.py lines 54-62: the stat property is read
ReadStat ==
    /\ LET r == File_stat(f_stat, f_timestamp, clock, on_disk)
       IN  /\ f_stat' = r.stat
           /\ f_timestamp' = r.timestamp
           /\ f_last' = [result |-> IF r.reread THEN "reread" ELSE "cached",
                         age |-> clock - f_timestamp]
    /\ UNCHANGED <<clock, on_disk>>

----------------------------------------------------------------------------
(* api/vault/file.py: convert_vault_rel_to_work_dir_rel, as exercised by      *)
(* test/bin/test_path.py.  A relative path is the sequence of its names.     *)

\* a path has at most MaxDepth names
MaxDepth == 3

Names == {"some", "path", "file1"}
Up == ".."
RelPaths == UNION { [1..n -> Names] : n \in 0..MaxDepth }

\* the number of leading names two paths share
RECURSIVE common_length(_, _)
common_length(a, b) ==
    IF Len(a) = 0 \/ Len(b) = 0 \/ a[1] /= b[1] THEN 0
    ELSE 1 + common_length(Tail(a), Tail(b))

\* a conversion that drops the shared names and never climbs
convert_no_climb(vault_relative_path, work_dir) ==
    SubSeq(vault_relative_path,
           common_length(vault_relative_path, work_dir) + 1, Len(vault_relative_path))

\* convert_vault_rel_to_work_dir_rel: one ".." for every name of work_dir that
\* the path does not share, then the names of the path that work_dir does not
\* share
convert_vault_rel_to_work_dir_rel(vault_relative_path, work_dir) ==
    LET k == common_length(vault_relative_path, work_dir)
    IN  [i \in 1..(Len(work_dir) - k) |-> Up]
        \o SubSeq(vault_relative_path, k + 1, Len(vault_relative_path))

\* os.path.normpath of a relative path: a ".." removes the name before it
RECURSIVE normpath(_, _)
normpath(done, rest) ==
    IF Len(rest) = 0 THEN done
    ELSE IF rest[1] = Up /\ Len(done) > 0 /\ done[Len(done)] /= Up
         THEN normpath(SubSeq(done, 1, Len(done) - 1), Tail(rest))
         ELSE normpath(Append(done, rest[1]), Tail(rest))

\* no conversion is going on
ConvIdle ==
    /\ cv_path = << >>
    /\ cv_work_dir = << >>
    /\ cv_result = << >>
    /\ cv_state = "idle"

\* the conversion is about to be called with any two relative paths
ConvInit ==
    /\ cv_path \in RelPaths
    /\ cv_work_dir \in RelPaths
    /\ cv_result = << >>
    /\ cv_state = "called"

Convert ==
    /\ cv_state = "called"
    /\ cv_result' = convert_vault_rel_to_work_dir_rel(cv_path, cv_work_dir)
    /\ cv_state' = "returned"
    /\ UNCHANGED <<cv_path, cv_work_dir>>

----------------------------------------------------------------------------
(* bin/sandman/walk.py: mpistatWalker._base64_prefix on its own *)

\* a vault root has at most MaxRootLen characters
MaxRootLen == 4

\* absolute paths as T.Path prints them: a leading slash, no doubled and no
\* trailing slash
RootPaths ==
    { r \in UNION { [1..n -> Chars] : n \in 2..MaxRootLen } :
        /\ r[1] = "/"
        /\ r[Len(r)] /= "/"
        /\ \A i \in 1..(Len(r) - 1) : ~(r[i] = "/" /\ r[i + 1] = "/") }

\* _base64_prefix is not being computed
PrefixIdle ==
    /\ pf_root = << >>
    /\ pf_prefix = << >>
    /\ pf_state = "idle"

\* _base64_prefix is about to be called on the root of any vault
PrefixInit ==
    /\ pf_root \in RootPaths
    /\ pf_prefix = << >>
    /\ pf_state = "called"

\* walk.py lines 192-205
CallBase64Prefix ==
    /\ pf_state = "called"
    /\ pf_prefix' = _base64_prefix(pf_root)
    /\ pf_state' = "returned"
    /\ UNCHANGED pf_root

----------------------------------------------------------------------------
(* FilesystemWalker.files: the walk of the tree under a vault root *)

\* the most entries of a directory, and the most symbolic links the system
\* follows when it resolves a path (a longer chain is ELOOP)
MaxEntries == 2
MaxSymlinks == 2

\* The directories: "R" is the root of the vault, "D" a directory that is an
\* entry of R when R has an entry of kind "dir", "O" a directory outside the
\* root, holding one regular file.  An entry of a directory is named by its
\* position, and is a regular file, a directory, a device, a socket, or a
\* symbolic link to the root, to the outside directory or to a regular file.
EntryKinds == {"file", "dir", "link_root", "link_out", "link_file", "device", "socket"}
Links == {"link_root", "link_out", "link_file"}

RootListings ==
    { l \in UNION { [1..n -> EntryKinds] : n \in 0..MaxEntries } :
        Cardinality({ i \in 1..Len(l) : l[i] = "dir" }) <= 1 }
SubListings == { << >>, <<"file">>, <<"link_root">> }

\* path.iterdir() of each directory
Listing(root_entries, sub_entries) ==
    [R |-> root_entries, D |-> sub_entries, O |-> <<"file">>]

\* the directory an entry of kind "dir", or the link of a link to a directory,
\* leads to
Target(kind) ==
    CASE kind = "dir" -> "D" [] kind = "link_root" -> "R" [] kind = "link_out" -> "O"

\* Path.is_dir of an entry whose path holds nlinks symbolic links: symbolic
\* links are followed, and a path the system cannot resolve is no directory
is_dir(kind, nlinks) ==
    \/ kind = "dir"
    \/ kind \in {"link_root", "link_out"} /\ nlinks <= MaxSymlinks

\* core.file.is_regular: a regular file, and no symbolic link to one
file_is_regular(kind) == kind = "file"

\* FilesystemWalker._walk_tree, from the i-th entry of directory dir reached
\* by path, which holds nlinks symbolic links: the paths it yields, in order,
\* each with the file it stats (the directory and position the file is in)
RECURSIVE _walk_tree(_, _, _, _, _)
_walk_tree(fs, dir, path, nlinks, i) ==
    IF i > Len(fs[dir]) THEN << >>
    ELSE LET kind == fs[dir][i]
             f == Append(path, i)
             n == IF kind \in Links THEN nlinks + 1 ELSE nlinks
             rest == _walk_tree(fs, dir, path, nlinks, i + 1)
         IN  IF is_dir(kind, n)
             THEN _walk_tree(fs, Target(kind), f, n, 1) \o rest
             ELSE IF file_is_regular(kind)
             THEN <<[path |-> f, st_ino |-> [dir |-> dir, slot |-> i]]>> \o rest
             ELSE rest

\* no File has been yielded
NoEntity == [path |-> << >>, vault |-> "", branch |-> "", stat |-> "", timestamp |-> ""]

\* FilesystemWalker.files over the one vault of the walker, from its pos-th
\* element on to the next yield or the end; outcome is what vault.branch does
\* for the file of the yield
walk_files(fs, pos, outcome) ==
    LET found == _walk_tree(fs, "R", << >>, 0, 1)
    IN  IF pos >= Len(found) THEN [end |-> "returned", file |-> NoEntity]
        ELSE IF _vault_status(outcome).raised
        THEN [end |-> outcome.value, file |-> NoEntity]
        ELSE [end |-> "yield",
              file |-> File([path |-> found[pos + 1].path, vault |-> "R"],
                            _vault_status(outcome).value,
                            found[pos + 1].st_ino, WalkTime)]

\* no tree is being walked
TreeIdle ==
    /\ tw_root = << >>
    /\ tw_sub = << >>
    /\ tw_pos = 0
    /\ tw_last = NoEntity
    /\ tw_gen = "idle"

\* a FilesystemWalker over one vault, whose root holds any tree, and files()
\* called on it
TreeInit ==
    /\ tw_root \in RootListings
    /\ tw_sub \in SubListings
    /\ tw_pos = 0
    /\ tw_last = NoEntity
    /\ tw_gen = "created"

\* walk.py lines 135-148: the consumer asks for the next element
NextTreeFile ==
    /\ tw_gen \in {"created", "suspended"}
    /\ \E outcome \in BranchOutcomes :
       LET r == walk_files(Listing(tw_root, tw_sub), tw_pos, outcome)
       IN  IF r.end = "yield"
           THEN /\ tw_last' = r.file
                /\ tw_pos' = tw_pos + 1
                /\ tw_gen' = "suspended"
           ELSE /\ tw_gen' = r.end
                /\ UNCHANGED <<tw_last, tw_pos>>
    /\ UNCHANGED <<tw_root, tw_sub>>

----------------------------------------------------------------------------
(* The state and the specifications *)

\* the shape of the state
TypeOK ==
    /\ status \in Seq([file : Files, state : Kinds, notified : BOOLEAN])
    /\ warnings \in Seq([status : 1..Len(status), tminus : TimeDeltas])
    /\ notifications \subseteq [status : 1..Len(status), stakeholder : Users]
    /\ last \in [op : {"none", "exists", "persist", "mark_notified", "file_cte"},
                 err : {"ok", "AssertionError", "NameError"}]
    /\ pc \in {"idle", "start", "step1", "in_with", "done", "exit"}
    /\ vault_dirs \in ArgLists
    /\ idx \in 0..(Len(vault_dirs) + 1)
    /\ vaults \subseteq 1..Len(vault_dirs)
    /\ staged_queue \subseteq Files
    /\ queue \subseteq Files
    /\ handler \in {"never asked", "accepted", "busy", "full"}
    /\ log \in Seq({"info", "warning", "error", "critical"})
    /\ fs_bases \in BaseLists
    /\ fs_vaults \subseteq 1..Len(fs_bases)
    /\ fs_skipped \subseteq 1..Len(fs_bases)
    /\ fs_state \in {"idle", "new", "built", "AssertionError", "FileNotFoundError"}
    /\ mpistat \in Snapshots
    /\ mp_resolved \subseteq Roots
    /\ mp_vaults \in Tables \cup {<< >>}
    /\ mp_pos \in 0..Len(mpistat)
    /\ mp_handle \in {"none", "unopened", "open", "closed"}
    /\ mp_gen \in {"idle", "created", "suspended", "closed", "returned",
                    "IndexError", "AssertionError"}
    /\ mp_timestamp \in SnapshotTimes \cup {"none"}
    /\ \A i \in 1..Len(mp_yielded) :
           /\ mp_yielded[i].path \in Paths
           /\ mp_yielded[i].vault \in Roots
           /\ mp_yielded[i].branch \in { o.value : o \in BranchOutcomes }
           /\ mp_yielded[i].timestamp \in SnapshotTimes
    /\ clock \in 0..MaxClock
    /\ on_disk \in StatResults
    /\ f_stat \in StatResults
    /\ f_timestamp \in 0..clock
    /\ f_last \in [result : {"idle", "none", "cached", "reread"}, age : 0..MaxClock]
    /\ cv_path \in RelPaths
    /\ cv_work_dir \in RelPaths
    /\ cv_result \in Seq(Names \cup {Up})
    /\ cv_state \in {"idle", "called", "returned"}
    /\ pf_root \in RootPaths \cup {<< >>}
    /\ pf_prefix \in Seq({B64[i] : i \in 1..Len(B64)})
    /\ pf_state \in {"idle", "called", "returned"}
    /\ tw_root \in RootListings
    /\ tw_sub \in SubListings
    /\ tw_pos \in Nat
    /\ tw_last = NoEntity \/ tw_last.branch \in { o.value : o \in BranchOutcomes }
    /\ tw_gen \in {"idle", "created", "suspended", "returned"}

Init == StoreInit /\ DrainIdle /\ WalkIdle /\ SnapIdle /\ StatIdle /\ ConvIdle /\ PrefixIdle /\ TreeIdle

Next ==
    \/ CallExists /\ UNCHANGED <<drainVars, walkVars, snapVars, statVars, convVars, prefixVars, treeVars>>
    \/ CallPersist /\ UNCHANGED <<drainVars, walkVars, snapVars, statVars, convVars, prefixVars, treeVars>>
    \/ CallMarkNotified /\ UNCHANGED <<drainVars, walkVars, snapVars, statVars, convVars, prefixVars, treeVars>>
    \/ CallFileCte /\ UNCHANGED <<drainVars, walkVars, snapVars, statVars, convVars, prefixVars, treeVars>>

Spec == Init /\ [][Next]_vars

InitDrain == StoreInit /\ DrainInit /\ WalkIdle /\ SnapIdle /\ StatIdle /\ ConvIdle /\ PrefixIdle /\ TreeIdle

NextDrain ==
    \/ MainStart /\ UNCHANGED <<storeVars, walkVars, snapVars, statVars, convVars, prefixVars, treeVars>>
    \/ Step1 /\ UNCHANGED <<storeVars, walkVars, snapVars, statVars, convVars, prefixVars, treeVars>>
    \/ EnterQueue /\ UNCHANGED <<storeVars, walkVars, snapVars, statVars, convVars, prefixVars, treeVars>>
    \/ ExitQueue /\ UNCHANGED <<storeVars, walkVars, snapVars, statVars, convVars, prefixVars, treeVars>>

SpecDrain == InitDrain /\ [][NextDrain]_vars

InitWalk == StoreInit /\ DrainIdle /\ WalkInit /\ SnapIdle /\ StatIdle /\ ConvIdle /\ PrefixIdle /\ TreeIdle

NextWalk ==
    \/ NewFilesystemWalker /\ UNCHANGED <<storeVars, drainVars, snapVars, statVars, convVars, prefixVars, treeVars>>

SpecWalk == InitWalk /\ [][NextWalk]_vars

InitSnap == StoreInit /\ DrainIdle /\ WalkIdle /\ SnapInit /\ StatIdle /\ ConvIdle /\ PrefixIdle /\ TreeIdle

NextSnap ==
    \/ NextFile /\ UNCHANGED <<storeVars, drainVars, walkVars, statVars, convVars, prefixVars, treeVars>>
    \/ Abandon /\ UNCHANGED <<storeVars, drainVars, walkVars, statVars, convVars, prefixVars, treeVars>>

SpecSnap == InitSnap /\ [][NextSnap]_vars

InitStat == StoreInit /\ DrainIdle /\ WalkIdle /\ SnapIdle /\ StatInit /\ ConvIdle /\ PrefixIdle /\ TreeIdle

NextStat ==
    \/ Tick /\ UNCHANGED <<storeVars, drainVars, walkVars, snapVars, convVars, prefixVars, treeVars>>
    \/ Touch /\ UNCHANGED <<storeVars, drainVars, walkVars, snapVars, convVars, prefixVars, treeVars>>
    \/ ReadStat /\ UNCHANGED <<storeVars, drainVars, walkVars, snapVars, convVars, prefixVars, treeVars>>

SpecStat == InitStat /\ [][NextStat]_vars

InitConv == StoreInit /\ DrainIdle /\ WalkIdle /\ SnapIdle /\ StatIdle /\ ConvInit /\ PrefixIdle /\ TreeIdle

NextConv ==
    \/ Convert /\ UNCHANGED <<storeVars, drainVars, walkVars, snapVars, statVars, prefixVars, treeVars>>

SpecConv == InitConv /\ [][NextConv]_vars

InitPrefix ==
    StoreInit /\ DrainIdle /\ WalkIdle /\ SnapIdle /\ StatIdle /\ ConvIdle /\ PrefixInit /\ TreeIdle

NextPrefix ==
    \/ CallBase64Prefix
           /\ UNCHANGED <<storeVars, drainVars, walkVars, snapVars, statVars, convVars, treeVars>>

SpecPrefix == InitPrefix /\ [][NextPrefix]_vars

InitTree ==
    StoreInit /\ DrainIdle /\ WalkIdle /\ SnapIdle /\ StatIdle /\ ConvIdle /\ PrefixIdle /\ TreeInit

NextTree ==
    \/ NextTreeFile
           /\ UNCHANGED <<storeVars, drainVars, walkVars, snapVars, statVars, convVars, prefixVars>>

SpecTree == InitTree /\ [][NextTree]_vars

\* a walker of either kind: over a snapshot, or over the tree itself
InitEither == InitSnap \/ InitTree

NextEither == NextSnap \/ NextTree

SpecEither == InitEither /\ [][NextEither]_vars

----------------------------------------------------------------------------
(* Properties of the state store.  They are stated over every call that can  *)
(* be made from the current database: every state object, file and          *)
(* stakeholder, and every outcome the call can have.                        *)

\* states whose lead-time, if any, is concrete
ConcreteStates == { st \in States : st.tminus /= Anything }
\* State.Staged and State.Deleted objects
BaseStates == { st \in States : st.kind /= "warned" }
\* State.Warned objects with the wildcard lead-time
WildcardWarned == { st \in States : st.kind = "warned" /\ st.tminus = Anything }

IsPrefix(a, b) == Len(a) <= Len(b) /\ \A i \in 1..Len(a) : a[i] = b[i]

\* the status rows of file f in state st (for warned: paired with a warnings
\* row of the state's lead-time)
RowsOf(db, st, f) ==
    { i \in 1..Len(db.status) :
        /\ db.status[i].file = f
        /\ db.status[i].state = st.kind
        /\ (st.kind = "warned" =>
              \E w \in 1..Len(db.warnings) :
                  db.warnings[w].status = i /\ db.warnings[w].tminus = st.tminus) }

\* C1: for staged and deleted states, exists(f) after persist(f) returns the
\* id that persist returned, whatever rows f already had.
C1_ExistsReturnsPersistedId ==
    \A st \in BaseStates, f \in Files :
        \A p \in persist(DB, st, f) :
            p.err = "ok" =>
                \A e \in exists(p.db, st, f) : e.err = "ok" /\ e.ret = p.ret

\* C2: for a warned state with a concrete lead-time L, exists(f) returns the id
\* of a status row of f whose warnings row has lead-time L, and returns None
\* when f has no such row.
C2_WarnedExistsMatchesLeadTime ==
    \A st \in ConcreteStates, f \in Files :
        st.kind = "warned" =>
            \A e \in exists(DB, st, f) :
                /\ e.err = "ok"
                /\ IF RowsOf(DB, st, f) = {} THEN e.ret = None
                   ELSE e.ret \in RowsOf(DB, st, f)

\* C3: exists, persist and mark_notified on a warned state with the wildcard
\* lead-time raise an error and leave the three tables as they were.
C3_WildcardLeadTimeFailsFast ==
    \A st \in WildcardWarned, f \in Files, stakeholder \in Users \cup {Anything} :
        \A o \in exists(DB, st, f) \cup persist(DB, st, f)
                    \cup mark_notified(DB, st, f, stakeholder) :
            o.err = "AssertionError" /\ o.db = DB

\* C3 witness: a persist has been refused by the lead-time assertion (only a
\* warned state with the wildcard lead-time is refused) in a transaction that
\* already holds rows in the three tables.
C3_Witness ==
    /\ last.op = "persist" /\ last.err = "AssertionError"
    /\ Len(status) > 0 /\ Len(warnings) > 0 /\ notifications /= {}

\* C4: mark_notified(f, s) twice in a row for a concrete stakeholder s of f:
\* neither call raises, the second changes no table, and s is notified for a
\* status row of (f, state).
C4_MarkNotifiedIdempotent ==
    \A st \in ConcreteStates, f \in Files :
        \A s \in FileStakeholders(f) :
            \A o1 \in mark_notified(DB, st, f, s) :
                /\ o1.err = "ok"
                /\ \A o2 \in mark_notified(o1.db, st, f, s) :
                       /\ o2.err = "ok"
                       /\ o2.db = o1.db
                       /\ \E i \in RowsOf(o2.db, st, f) :
                              [status |-> i, stakeholder |-> s] \in o2.db.notifications

\* C5: mark_notified(f, Anything) notifies every stakeholder of the resolved
\* record and removes no notification; mark_notified(f, s) adds notification
\* rows for s only.
C5_MarkNotifiedScope ==
    \A st \in ConcreteStates, f \in Files, s \in Users \cup {Anything} :
        \A o \in mark_notified(DB, st, f, s) :
            LET new == o.db.notifications \ DB.notifications
            IN  /\ o.err = "ok"
                /\ DB.notifications \subseteq o.db.notifications
                /\ IF s = Anything
                   THEN \E i \in RowsOf(o.db, st, f) :
                            /\ \A u \in FileStakeholders(f) :
                                   [status |-> i, stakeholder |-> u] \in o.db.notifications
                            /\ \A n \in new : n.status = i
                   ELSE \A n \in new : n.stakeholder = s

\* C6: mark_notified creates exactly one status row when (file, state) has
\* none and attaches the notification to it; otherwise it adds no status row
\* and attaches the notification to an existing row of (file, state).
C6_LazyStateCreation ==
    \A st \in ConcreteStates, f \in Files, s \in Users \cup {Anything} :
        \A o \in mark_notified(DB, st, f, s) :
            LET new == o.db.notifications \ DB.notifications
            IN  /\ o.err = "ok"
                /\ IF RowsOf(DB, st, f) = {}
                   THEN /\ Len(o.db.status) = Len(DB.status) + 1
                        /\ IsPrefix(DB.status, o.db.status)
                        /\ \A n \in new : n.status = Len(o.db.status)
                   ELSE /\ o.db.status = DB.status
                        /\ \A n \in new : n.status \in RowsOf(DB, st, f)

\* every persist on a state with a concrete lead-time appends exactly one
\* status row, for its file and state-kind, and keeps every earlier row of
\* status and warnings; a persist that returns, returns the new row's id
PersistAppends ==
    \A st \in ConcreteStates, f \in Files :
        \A p \in persist(DB, st, f) :
            /\ Len(p.db.status) = Len(DB.status) + 1
            /\ IsPrefix(DB.status, p.db.status)
            /\ IsPrefix(DB.warnings, p.db.warnings)
            /\ p.db.status[Len(p.db.status)].file = f
            /\ p.db.status[Len(p.db.status)].state = st.kind
            /\ (p.err = "ok" => p.ret = Len(p.db.status))

\* C7: the status history is append-only: persist always appends a new status
\* row, also when (file, state-kind) already has one, and no call changes or
\* removes a row of status or warnings.
C7_AppendOnly ==
    /\ []PersistAppends
    /\ [][IsPrefix(status, status') /\ IsPrefix(warnings, warnings')]_vars

\* C7 witness: a persist has returned and the file has two status rows of the
\* same state-kind.
C7_Witness ==
    /\ last.op = "persist" /\ last.err = "ok"
    /\ Len(status) = 2
    /\ status[1].file = status[2].file /\ status[1].state = status[2].state

\* C8: after persist of Staged(notified=True) on F, the files selected by that
\* state's file_cte (notified = true) contain F.
C8_PersistedNotifiedIsSelected ==
    \A f \in Files :
        LET st == [kind |-> "staged", notified |-> "True", tminus |-> NoTminus]
        IN  \A p \in persist(DB, st, f) :
                p.err = "ok" /\ f \in file_cte(p.db, st)

\* C9: persist on a state constructed with notified=True marks the record it
\* returns, and no other record, as notified for every stakeholder of the file.
C9_PersistNotifiesNewRecordOnly ==
    \A st \in ConcreteStates, f \in Files :
        st.notified = "True" =>
            \A p \in persist(DB, st, f) :
                /\ p.err = "ok"
                /\ p.db.notifications \ DB.notifications =
                       { [status |-> p.ret, stakeholder |-> u] : u \in FileStakeholders(f) }

\* C18: persist on any state with a concrete lead-time, whatever its notified
\* field, ends by returning the id of a status row (the calls persist ->
\* mark_notified -> exists -> persist do not recurse without bound and no call
\* of the chain fails).
C18_PersistReturnsId ==
    \A st \in ConcreteStates, f \in Files :
        \A p \in persist(DB, st, f) :
            p.err = "ok" /\ p.ret \in 1..Len(p.db.status)

\* C19: persist on a state whose notified field is False or the wildcard
\* Anything leaves the notifications table as it was.
C19_PersistNotifiesOnlyWhenTrue ==
    \A st \in ConcreteStates, f \in Files :
        st.notified /= "True" =>
            \A p \in persist(DB, st, f) : p.db.notifications = DB.notifications

\* warning rows are paired with warned status rows: every warned status row has
\* exactly one warnings row and every warnings row references a warned status row
Paired(db) ==
    /\ \A i \in 1..Len(db.status) :
           db.status[i].state = "warned" =>
               Cardinality({ w \in 1..Len(db.warnings) : db.warnings[w].status = i }) = 1
    /\ \A w \in 1..Len(db.warnings) :
           /\ db.warnings[w].status \in 1..Len(db.status)
           /\ db.status[db.warnings[w].status].state = "warned"

\* C20: a persist or mark_notified call that returns keeps the warning rows
\* paired with the warned status rows, and a persist on a warned state that
\* returns has added exactly one status row and exactly one warnings row, which
\* references the new status row and carries the state's lead-time.
C20_WarningsPaired ==
    Paired(DB) =>
        \A st \in States, f \in Files :
            /\ \A s \in Users \cup {Anything} :
                   \A o \in mark_notified(DB, st, f, s) : o.err = "ok" => Paired(o.db)
            /\ \A p \in persist(DB, st, f) :
                   p.err = "ok" =>
                       /\ Paired(p.db)
                       /\ st.kind = "warned" =>
                              /\ p.db.status =
                                     Append(DB.status,
                                            [file |-> f, state |-> "warned",
                                             notified |-> p.db.status[p.ret].notified])
                              /\ p.ret = Len(p.db.status)
                              /\ p.db.warnings =
                                     Append(DB.warnings,
                                            [status |-> p.ret, tminus |-> st.tminus])

\* C20 witness: a persist on a warned state has returned and the file history
\* holds two warned rows of different lead-times, each with its warnings row.
C20_Witness ==
    /\ last.op = "persist" /\ last.err = "ok"
    /\ Len(status) = 2 /\ Len(warnings) = 2
    /\ status[1].state = "warned" /\ status[2].state = "warned"
    /\ warnings[1].tminus /= warnings[2].tminus
    /\ Paired(DB)

\* the latest status row of file f (0 when it has none)
LatestRow(db, f) ==
    LET rows == { i \in 1..Len(db.status) : db.status[i].file = f }
    IN  IF rows = {} THEN 0 ELSE CHOOSE i \in rows : \A j \in rows : j <= i

\* the files currently in the state st describes: the latest status row of
\* the file is of the state-kind, with the notified value and (warned) the
\* lead-time of st unless they are wildcards
CurrentlyIn(db, st) ==
    { f \in Files :
        LET i == LatestRow(db, f)
        IN  /\ i /= 0
            /\ db.status[i].state = st.kind
            /\ (st.notified /= Anything => db.status[i].notified = (st.notified = "True"))
            /\ (st.kind = "warned" =>
                  \E w \in 1..Len(db.warnings) :
                      /\ db.warnings[w].status = i
                      /\ (st.tminus /= Anything => db.warnings[w].tminus = st.tminus)) }

\* C21: the fragment of file_cte selects exactly the files currently in the
\* state-kind, narrowed by notified and lead-time unless they are wildcards,
\* and its parameter tuple has one value per placeholder, in placeholder order.
C21_FileCteSelectsCurrent ==
    \A st \in States :
        /\ file_cte(DB, st) = CurrentlyIn(DB, st)
        /\ Len(file_cte_params(st)) = Len(file_cte_placeholders(st))
        /\ \A i \in 1..Len(file_cte_params(st)) :
               file_cte_params(st)[i] =
                   (CASE file_cte_placeholders(st)[i] = "state" -> st.kind
                      [] file_cte_placeholders(st)[i] = "notified" -> st.notified
                      [] file_cte_placeholders(st)[i] = "tminus" -> st.tminus)

----------------------------------------------------------------------------
(* Properties of the drain *)

\* C10: the ready state of the queued files is cleared only after the
\* downstream handler accepted the batch; otherwise the queue is as it was.
C10_ClearedOnlyAfterAck ==
    pc = "done" => (handler = "accepted" \/ staged_queue = queue)

----------------------------------------------------------------------------
(* Properties of the walkers *)

\* the base paths that resolve cleanly to a vault
CleanBases == { i \in 1..Len(fs_bases) : fs_bases[i] = "vault" }

\* C11: constructing a filesystem walker raises nothing but the failure on
\* zero vaults, which it raises exactly when no base path resolves cleanly;
\* otherwise the walker keeps exactly the vaults of the base paths that resolve
\* cleanly: missing and conflicting base paths are skipped.
C11_ConstructionSkipsBadBases ==
    fs_state \notin {"idle", "new"} =>
        /\ fs_state \in {"built", "AssertionError"}
        /\ fs_state = "AssertionError" <=> CleanBases = {}
        /\ fs_state = "built" => fs_vaults = CleanBases

\* path is root or lies below it: root, a slash and more
IsUnder(path, root) == path = root \/ startswith(path, root \o <<"/">>)

\* a is b with some elements left out
RECURSIVE IsSubseq(_, _)
IsSubseq(a, b) ==
    IF Len(a) = 0 THEN TRUE
    ELSE IF Len(b) = 0 THEN FALSE
    ELSE IF a[1] = b[1] THEN IsSubseq(Tail(a), Tail(b))
    ELSE IsSubseq(a, Tail(b))

\* the generator of files() has ended by itself (not abandoned by the consumer)
Ended == mp_gen \in {"returned", "IndexError", "AssertionError"}

\* the decoded paths of the mode-"f" records among the lines read so far
RegularRead ==
    LET regular == SelectSeq(SubSeq(mpistat, 1, mp_pos), LAMBDA l : l.mode = "f")
    IN  [i \in 1..Len(regular) |-> b64decode(regular[i].encoded)]

YieldedPaths == [i \in 1..Len(mp_yielded) |-> mp_yielded[i].path]

TableRoots == { mp_vaults[k].root : k \in 1..Len(mp_vaults) }

\* the snapshot is one mode-"f" record under the root of one vault the walker
\* was constructed over and one mode-"d" record under the root of another:
\* the File the walk is to yield, if so
OneRegularOneDirectory ==
    { [path |-> b64decode(mpistat[i].encoded), vault |-> r] :
        i \in { j \in 1..Len(mpistat) :
                  /\ Len(mpistat) = 2
                  /\ mpistat[j].mode = "f" /\ mpistat[j].nstats = NStats
                  /\ mpistat[3 - j].mode = "d" /\ mpistat[3 - j].nstats = NStats },
        r \in { q \in mp_resolved :
                  \E q2 \in mp_resolved \ {q} :
                      \E j \in 1..2 :
                          /\ Len(mpistat) = 2
                          /\ mpistat[j].mode = "f"
                          /\ IsUnder(b64decode(mpistat[j].encoded), q)
                          /\ IsUnder(b64decode(mpistat[3 - j].encoded), q2) } }

\* exactly one entity has been yielded: the file e of the vault e
IsOnly(e) ==
    /\ Len(mp_yielded) = 1
    /\ mp_yielded[1].path = e.path
    /\ mp_yielded[1].vault = e.vault

\* C12: the snapshot walker yields only mode-"f" records: the paths yielded
\* are, in order, paths of mode-"f" records read; and the walk of a snapshot
\* of one mode-"f" record under one vault root and one mode-"d" record under
\* another yields exactly one entity, the file, with the vault it lies under.
C12_OnlyRegularFiles ==
    /\ IsSubseq(YieldedPaths, RegularRead)
    /\ \A e \in OneRegularOneDirectory : Ended => IsOnly(e)

\* the paths yielded are, in order, paths of mode-"f" records read so far
OnlyRegularYielded == IsSubseq(YieldedPaths, RegularRead)

\* over such a snapshot whose two vaults both sit in the prefix table, the one
\* file has been yielded by the time the walk is over
OneEntityFromKeptVaults ==
    \A e \in OneRegularOneDirectory :
        (Ended /\ mp_resolved \subseteq TableRoots) => IsOnly(e)

\* C13: a record is matched to a vault only if its decoded path is the vault's
\* root or lies below it, and a record that some vault of the walker contains
\* is matched, also when the prefix of another vault starts its encoded path.
C13_MatchOnlyUnderRoot ==
    /\ \A p \in Paths :
           LET m == _is_match(mp_vaults, b64encode(p))
           IN  /\ m /= NoFile =>
                      m.path = p /\ m.vault \in TableRoots /\ IsUnder(p, m.vault)
               /\ (\E r \in TableRoots : IsUnder(p, r)) => m /= NoFile
    /\ \A i \in 1..Len(mp_yielded) :
           /\ mp_yielded[i].vault \in TableRoots
           /\ IsUnder(mp_yielded[i].path, mp_yielded[i].vault)

\* C13 witness: a file has been yielded for a vault that is not the first of
\* the walker whose prefix starts the file's encoded path.
C13_Witness ==
    \E i \in 1..Len(mp_yielded) :
        /\ Len(mp_vaults) = 2
        /\ mp_yielded[i].vault = mp_vaults[2].root
        /\ startswith(b64encode(mp_yielded[i].path), mp_vaults[1].prefix)

\* C22: the snapshot walker drops no resolved vault: every vault resolved at
\* construction has its own entry in the prefix table, and every path that
\* lies under a resolved vault root is matched, also when two roots have the
\* same prefix.
C22_NoVaultDropped ==
    /\ \A r \in mp_resolved : r \in TableRoots
    /\ \A p \in Paths :
           (\E r \in mp_resolved : IsUnder(p, r)) =>
               _is_match(mp_vaults, b64encode(p)) /= NoFile

\* every line of the snapshot is a whole record, but for a blank last line
WellFormed ==
    \A i \in 1..Len(mpistat) :
        \/ mpistat[i] /= Blank /\ mpistat[i].nstats = NStats
        \/ mpistat[i] = Blank /\ i = Len(mpistat)

\* the paths of the records of the snapshot that files() is to yield
Matching ==
    LET wanted == SelectSeq(mpistat,
                      LAMBDA l : l.mode = "f" /\
                                 \E r \in TableRoots : IsUnder(b64decode(l.encoded), r))
    IN  [i \in 1..Len(wanted) |-> b64decode(wanted[i].encoded)]

\* the record the entity mp_yielded[i] was made from: the i-th of the records
\* read so far that are regular files of a vault of the walker
YieldedFrom ==
    SelectSeq(SubSeq(mpistat, 1, mp_pos),
              LAMBDA l : l.mode = "f" /\ l.nstats = NStats /\
                         _is_match(mp_vaults, l.encoded) /= NoFile)

\* the exceptional markers, and the classifications of a file without one
Markers == { o.value : o \in { b \in BranchOutcomes : b.raised } }
Plain == { o.value : o \in { b \in BranchOutcomes : ~b.raised } }

\* C25 (snapshot walk): a PhysicalVaultFile or VaultCorruption raised by the
\* classifier for one file does not abort the walk: from every position of
\* the snapshot, the step that meets the exception ends as the step of an
\* untracked file does, at the same record, and the file it yields carries
\* the exception as its classification, which is neither that of an untracked
\* file nor a branch; so every later file is yielded as well.
C25_SnapshotWalkSurvivesClassifier ==
    /\ Markers \cap Plain = {}
    /\ mp_gen \notin Markers
    /\ mp_gen \in {"created", "suspended"} =>
           \A bad \in { b \in BranchOutcomes : b.raised } :
               LET r == files(mp_vaults, mpistat, mp_pos, bad, mp_timestamp)
                   u == files(mp_vaults, mpistat, mp_pos,
                              [raised |-> FALSE, value |-> "None"], mp_timestamp)
               IN  /\ r.end = u.end
                   /\ r.pos = u.pos
                   /\ r.end = "yield" =>
                          /\ r.file.branch = bad.value
                          /\ r.file.path = u.file.path
                          /\ r.file.vault = u.file.vault
    /\ YieldedPaths = [i \in 1..Len(YieldedFrom) |-> b64decode(YieldedFrom[i].encoded)]

\* C25 witness: the snapshot walk has yielded a file classified with an
\* exceptional marker, and a later file after it.
C25_Witness ==
    /\ Len(mp_yielded) = 2
    /\ mp_yielded[1].branch \in Markers
    /\ mp_yielded[2].branch \in Plain

\* the metadata of entity e are the fields of the record line, a regular file
\* with no permission bit, acquired when the snapshot was last modified
CarriesRecord(e, line) ==
    /\ e.path = b64decode(line.encoded)
    /\ decimal(e.stat.st_size) = line.stats[_SIZE]
    /\ decimal(e.stat.st_uid) = line.stats[_OWNER]
    /\ decimal(e.stat.st_gid) = line.stats[_GROUP]
    /\ decimal(e.stat.st_atime) = line.stats[_ATIME]
    /\ decimal(e.stat.st_mtime) = line.stats[_MTIME]
    /\ decimal(e.stat.st_ctime) = line.stats[_CTIME]
    /\ decimal(e.stat.st_ino) = line.stats[_INODE]
    /\ decimal(e.stat.st_nlink) = line.stats[_NLINKS]
    /\ decimal(e.stat.st_dev) = line.stats[_DEVICE]
    /\ e.stat.st_mode = S_IFREG
    /\ e.stat.st_mode % 4096 = 0
    /\ e.timestamp = mp_timestamp
    /\ e.timestamp /= WalkTime

\* C26: every entity of the snapshot walk carries the metadata of its own
\* record: size, owner, group, the three times, inode, link count and device
\* are the record's fields, the mode is that of a regular file with zero
\* permission bits, and the acquisition timestamp is the modification time
\* of the snapshot file read at construction, the same for every entity.
C26_EntityCarriesItsRecord ==
    /\ Len(YieldedFrom) >= Len(mp_yielded)
    /\ \A i \in 1..Len(mp_yielded) :
           i <= Len(YieldedFrom) => CarriesRecord(mp_yielded[i], YieldedFrom[i])
    /\ \A i, j \in 1..Len(mp_yielded) : mp_yielded[i].timestamp = mp_yielded[j].timestamp

\* C26 witness: two entities of different records have been yielded.
C26_Witness ==
    /\ Len(mp_yielded) = 2
    /\ mp_yielded[1].path /= mp_yielded[2].path
    /\ mp_yielded[1].stat /= mp_yielded[2].stat
    /\ CarriesRecord(mp_yielded[2], mpistat[2])

\* C14: over a snapshot of whole records, with or without a blank last line,
\* the iteration, unless abandoned, ends normally at the end of the stream or
\* at the blank line, having yielded each matching record.
C14_EndsNormally ==
    (WellFormed /\ Ended) => (mp_gen = "returned" /\ YieldedPaths = Matching)

\* C15: the handle is not opened before the first element is requested, and
\* it is open only while the generator is suspended at a yield: once the
\* iteration is over (completed, abandoned or failed) the handle is not open.
C15_HandleClosedOnExit ==
    /\ mp_gen = "created" => mp_handle = "unopened"
    /\ mp_handle = "open" => mp_gen = "suspended"
    /\ (Ended \/ (mp_gen = "closed" /\ mp_pos > 0)) => mp_handle = "closed"

\* C15 witness: the consumer has abandoned the iteration after an element.
C15_Witness ==
    /\ mp_gen = "closed"
    /\ Len(mp_yielded) > 0
    /\ mp_handle = "closed"

\* the iteration has failed while it processed a record, after an element
C15_WitnessFailure ==
    /\ mp_gen = "AssertionError"
    /\ Len(mp_yielded) > 0
    /\ mp_handle = "closed"

\* C16: reading File.stat re-reads the metadata and resets the timestamp
\* exactly when the time since acquisition is strictly greater than the
\* staleness bound; otherwise it returns the cached metadata and changes
\* nothing; and a read right after a refresh does not re-read.
C16_RestatOnlyWhenStale ==
    /\ LET r == File_stat(f_stat, f_timestamp, clock, on_disk)
           again == File_stat(r.stat, r.timestamp, clock, on_disk)
       IN  /\ r.reread <=> (clock - f_timestamp > _RESTAT_AFTER)
           /\ r.reread => (r.stat = on_disk /\ r.timestamp = clock)
           /\ ~r.reread => (r.stat = f_stat /\ r.timestamp = f_timestamp)
           /\ ~again.reread /\ again.stat = r.stat /\ again.timestamp = r.timestamp
    /\ f_last.result = "reread" => f_last.age > _RESTAT_AFTER
    /\ f_last.result = "cached" => f_last.age <= _RESTAT_AFTER

\* C16 witness: the property has been read exactly at the staleness bound and
\* served from the cache, the disk holding other metadata.
C16_Witness ==
    /\ f_last = [result |-> "cached", age |-> _RESTAT_AFTER]
    /\ clock - f_timestamp = _RESTAT_AFTER
    /\ f_stat /= on_disk

\* the property has been read past the bound, refreshed, and read again
C16_WitnessRefresh ==
    /\ f_last = [result |-> "cached", age |-> 0]
    /\ f_timestamp > _RESTAT_AFTER
    /\ f_timestamp = clock

\* the longest common prefix of two strings
LongestCommonPrefix(x, y) ==
    LET shared == { k \in 0..Len(x) : k <= Len(y) /\ SubSeq(x, 1, k) = SubSeq(y, 1, k) }
    IN  SubSeq(x, 1, CHOOSE k \in shared : \A j \in shared : j <= k)

\* what may follow a root and a slash in the path of a record
Rests == UNION { [1..n -> Chars] : n \in 1..2 }

\* C23: the distinguishing prefix of a root is the longest common prefix of
\* the encodings of the root and of the root followed by a slash, and the
\* encoding of the root and of every path made of the root, a slash and more
\* starts with it, whatever the length of the root modulo three.
C23_PrefixNoFalseNegative ==
    pf_state = "returned" =>
        /\ pf_prefix = LongestCommonPrefix(b64encode(pf_root),
                                           b64encode(pf_root \o <<"/">>))
        /\ startswith(b64encode(pf_root), pf_prefix)
        /\ \A rest \in Rests :
               startswith(b64encode(pf_root \o <<"/">> \o rest), pf_prefix)

\* C23 witness: the prefix of a root whose last base64 group holds one byte
\* has been computed; it ends inside that group.
C23_Witness ==
    /\ pf_state = "returned"
    /\ Len(pf_root) % 3 = 1
    /\ Len(pf_prefix) % 4 = 1

\* the prefix of a root that fills its last base64 group is its whole encoding
C23_WitnessWhole ==
    /\ pf_state = "returned"
    /\ Len(pf_root) % 3 = 0
    /\ pf_prefix = b64encode(pf_root)

\* the prefix of a root whose last base64 group holds two bytes stops at the
\* padding
C23_WitnessTwo ==
    /\ pf_state = "returned"
    /\ Len(pf_root) % 3 = 2
    /\ Len(pf_prefix) % 4 = 3

----------------------------------------------------------------------------
(* Properties of the path conversion *)

\* C17: convert_vault_rel_to_work_dir_rel(p, w) is p relative to w: when p
\* lies under w it is the rest of p after w; otherwise it climbs with ".."
\* out of the names of w that p does not share and then descends the rest of
\* p; and the result joined onto w and normalised is p.
C17_RelativeToWorkDir ==
    cv_state = "returned" =>
        /\ normpath(<< >>, cv_work_dir \o cv_result) = cv_path
        /\ IsPrefix(cv_work_dir, cv_path) =>
               cv_result = SubSeq(cv_path, Len(cv_work_dir) + 1, Len(cv_path))
        /\ ~IsPrefix(cv_work_dir, cv_path) => cv_result[1] = Up
        /\ \A i \in 1..Len(cv_result) :
               cv_result[i] = Up => \A j \in 1..i : cv_result[j] = Up

\* C17 witness: the conversion of some/file1 against the working directory
\* some/path has returned ../file1 (the file beside the working directory).
C17_Witness ==
    /\ cv_state = "returned"
    /\ cv_path = <<"some", "file1">>
    /\ cv_work_dir = <<"some", "path">>
    /\ cv_result = <<Up, "file1">>

\* the conversion of some/path/file1 against some/path has returned file1
C17_WitnessChild ==
    /\ cv_state = "returned"
    /\ cv_path = <<"some", "path", "file1">>
    /\ cv_work_dir = <<"some", "path">>
    /\ cv_result = <<"file1">>

----------------------------------------------------------------------------
(* Properties of the walk of the tree *)

\* the elements files() yields over the tree of the state
Found == _walk_tree(Listing(tw_root, tw_sub), "R", << >>, 0, 1)

\* the elements yielded so far
Yielded == SubSeq(Found, 1, tw_pos)

\* the regular files under the root: those of the root directory, and those
\* of the sub-directory when it is an entry of the root
RegularUnderRoot ==
    { [dir |-> "R", slot |-> i] : i \in { j \in 1..Len(tw_root) : tw_root[j] = "file" } }
    \cup { [dir |-> "D", slot |-> i] :
             i \in { j \in 1..Len(tw_sub) :
                       tw_sub[j] = "file" /\ \E k \in 1..Len(tw_root) : tw_root[k] = "dir" } }

\* C24: files() of the filesystem walker yields each regular file under the
\* root exactly once and nothing else (no directory, symbolic link, device or
\* socket, and no file from outside the root), also over a tree that holds
\* symbolic links to directories, and ends once each has been yielded.
C24_EachRegularFileOnce ==
    /\ \A k \in 1..Len(Yielded) : Yielded[k].st_ino \in RegularUnderRoot
    /\ \A j, k \in 1..Len(Yielded) : Yielded[j].st_ino = Yielded[k].st_ino => j = k
    /\ tw_gen = "returned" =>
           \A file \in RegularUnderRoot : \E k \in 1..Len(Yielded) : Yielded[k].st_ino = file

\* over a tree without symbolic links to directories the walk yields each
\* regular file under the root once and nothing else
NoDirectoryLinks ==
    /\ \A i \in 1..Len(tw_root) : tw_root[i] \notin {"link_root", "link_out"}
    /\ \A i \in 1..Len(tw_sub) : tw_sub[i] \notin {"link_root", "link_out"}

EachRegularFileOnceWithoutLinks == NoDirectoryLinks => C24_EachRegularFileOnce

\* the walk is over and has yielded a file a second time
YieldedTwice ==
    /\ tw_gen = "returned"
    /\ \E j, k \in 1..Len(Yielded) : j /= k /\ Yielded[j].st_ino = Yielded[k].st_ino

\* C25: a PhysicalVaultFile or VaultCorruption raised by the classifier for
\* one file aborts neither walk.  Over the tree as over the snapshot, the step
\* that meets the exception ends as the step of an untracked file does and
\* yields the same file, with the exception as its classification, which is
\* neither that of an untracked file nor a branch; so every later file is
\* yielded as well, and the walk of the tree ends only when it has yielded
\* every element.
C25_WalkSurvivesClassifier ==
    /\ C25_SnapshotWalkSurvivesClassifier
    /\ tw_gen \notin Markers
    /\ tw_gen \in {"created", "suspended"} =>
           \A bad \in { b \in BranchOutcomes : b.raised } :
               LET fs == Listing(tw_root, tw_sub)
                   r == walk_files(fs, tw_pos, bad)
                   u == walk_files(fs, tw_pos, [raised |-> FALSE, value |-> "None"])
               IN  /\ r.end = u.end
                   /\ r.end = "yield" =>
                          /\ r.file.branch = bad.value
                          /\ r.file.path = u.file.path
                          /\ r.file.stat = u.file.stat
    /\ tw_pos <= Len(Found)
    /\ tw_gen = "returned" => tw_pos = Len(Found)
    /\ tw_pos > 0 => /\ tw_last.path = Found[tw_pos].path
                     /\ tw_last.stat = Found[tw_pos].st_ino

\* the walk of the tree has yielded a second file, and the classifier raised
\* for it ...
C25_WitnessLive ==
    /\ tw_pos = 2
    /\ tw_last.branch \in Markers
    /\ tw_gen = "suspended"

\* ... and the walk of the tree is over, the file yielded last a marked one
C25_WitnessLiveOver ==
    /\ tw_pos >= 2
    /\ tw_last.branch \in Markers
    /\ tw_gen = "returned"

====
